---------------------------- MODULE Spec2Model ----------------------------
(***************************************************************************)
(* Model of the progress ledger of bevy_progress_tracking (src/src/lib.rs):*)
(* the three count pairs current / previous / persisted of Progress<T>,    *)
(* every public method of Progress and the private methods of TaskProgress *)
(* they call.                                                              *)
(*                                                                         *)
(* usize is modelled as the integers 0 .. UsizeMax with Rust's `+=`: with  *)
(* overflow checks the addition panics when the sum exceeds UsizeMax,      *)
(* without them it wraps.  debug_assert! is compiled in exactly when       *)
(* debug assertions are on; rustc turns overflow checks on with them, so   *)
(* one flag, debug_assertions, stands for the build profile.               *)
(***************************************************************************)
EXTENDS Integers, Sequences, FiniteSets

VARIABLES
    debug_assertions,  \* the build: TRUE for a dev build, FALSE for a release build
    current,           \* Progress::current
    previous,          \* Progress::previous
    persisted,         \* Progress::persisted
    panicked,          \* a call has panicked (the thread unwound)
    op,                \* the last method called ("new" after construction)
    ret,               \* what the last call returned: a float from progress(), else NoValue
    twin,              \* a second Progress with its panic flag.  In SpecPersist
                       \* nothing is persisted on it: track is called for it in
                       \* every frame instead.  In SpecOrder it is given the calls
                       \* of the frame in the opposite order.
    standing           \* SpecPersist: the track calls made on the twin in every
                       \* frame; SpecOrder: the calls made in the frame so far

vars == <<debug_assertions, current, previous, persisted, panicked, op, ret, twin, standing>>

---------------------------------------------------------------------------
(* usize *)

\* the largest value of the (scaled down) counter type
UsizeMax == 3

Usize == 0 .. UsizeMax

Modulus == UsizeMax + 1

\* `x + y` does not fit the counter type
Overflows(x, y) == x + y > UsizeMax

\* the value `x += y` stores when the addition is not checked
\* WrappingAdd as a saturating addition
WrappingAdd_saturating(x, y) == IF x + y > UsizeMax THEN UsizeMax ELSE x + y

WrappingAdd(x, y) == (x + y) % Modulus

---------------------------------------------------------------------------
(* f32, as far as progress() needs it: NaN, +infinity, and the finite      *)
(* non-negative values mant / 2^exp, normalised to a 24 bit significand.   *)

F32Bits == 24

NaN == [cls |-> "nan", mant |-> 0, exp |-> 0]

Infinity == [cls |-> "inf", mant |-> 0, exp |-> 0]

F32Zero == [cls |-> "fin", mant |-> 0, exp |-> 0]

Finite(mant, exp) == [cls |-> "fin", mant |-> mant, exp |-> exp]

F32One == Finite(2 ^ (F32Bits - 1), F32Bits - 1)

\* `n as f32`, as the integer the float holds: n itself below 2^24, else n
\* rounded to 24 significant bits, ties to even
UsizeAsF32(n) ==
    IF n < 2 ^ F32Bits THEN n
    ELSE LET k == CHOOSE k \in 1 .. 6 : n \div 2 ^ k < 2 ^ F32Bits
             q == n \div 2 ^ k
             r == n % 2 ^ k
             up == 2 * r > 2 ^ k \/ (2 * r = 2 ^ k /\ q % 2 = 1)
         IN  (IF up THEN q + 1 ELSE q) * 2 ^ k

\* the scaling that brings n / d into [2^23, 2^24), for n / d < 2^24
Scale(n, d) ==
    CHOOSE e \in 0 .. (F32Bits + UsizeMax) :
        /\ 2 ^ (F32Bits - 1) * d <= n * 2 ^ e
        /\ n * 2 ^ e < 2 ^ F32Bits * d

\* F32Div rounding toward zero instead of to nearest
F32Div_truncating(n, d) ==
    IF d = 0 THEN (IF n = 0 THEN NaN ELSE Infinity)
    ELSE IF n = 0 THEN F32Zero
    ELSE Finite((n * 2 ^ Scale(n, d)) \div d, Scale(n, d))

\* `n / d` of two floats holding the integers n and d: IEEE 754 division,
\* rounded to nearest, ties to even
F32Div(n, d) ==
    IF d = 0 THEN (IF n = 0 THEN NaN ELSE Infinity)
    ELSE IF n = 0 THEN F32Zero
    ELSE LET e == Scale(n, d)
             q == (n * 2 ^ e) \div d
             r == (n * 2 ^ e) % d
             up == 2 * r > d \/ (2 * r = d /\ q % 2 = 1)
             m == IF up THEN q + 1 ELSE q
         IN  IF m = 2 ^ F32Bits THEN Finite(2 ^ (F32Bits - 1), e - 1)
             ELSE Finite(m, e)

\* a < b for two floats that are not NaN
F32Less(a, b) ==
    IF a.cls = "inf" THEN FALSE
    ELSE IF b.cls = "inf" THEN TRUE
    ELSE IF b.mant = 0 THEN FALSE
    ELSE IF a.mant = 0 THEN TRUE
    ELSE a.exp > b.exp \/ (a.exp = b.exp /\ a.mant < b.mant)

\* F32Min handing a NaN operand on, as f32::minimum does
F32Min_propagating_nan(a, b) ==
    IF a.cls = "nan" \/ b.cls = "nan" THEN NaN
    ELSE IF F32Less(b, a) THEN b ELSE a

\* f32::min: the lesser of the two; when one is NaN, the other
F32Min(a, b) ==
    IF a.cls = "nan" THEN b
    ELSE IF b.cls = "nan" THEN a
    ELSE IF F32Less(b, a) THEN b ELSE a

---------------------------------------------------------------------------
(* TaskProgress.  A method's outcome is [self |-> the value it leaves,     *)
(* panic |-> whether it panicked].                                         *)

\* TaskProgress::default()
Zero == [tasks |-> 0, done |-> 0]

Pair(t, d) == [tasks |-> t, done |-> d]

TaskProgress == [tasks : Usize, done : Usize]

Task == {"Done", "InProgress"}

\* self.tasks += tasks; self.done += done, each checked in a dev build
AddCounts(self, tasks, done) ==
    IF debug_assertions /\ Overflows(self.tasks, tasks)
    THEN [self |-> self, panic |-> TRUE]
    ELSE IF debug_assertions /\ Overflows(self.done, done)
    THEN [self |-> Pair(WrappingAdd(self.tasks, tasks), self.done), panic |-> TRUE]
    ELSE [self |-> Pair(WrappingAdd(self.tasks, tasks), WrappingAdd(self.done, done)),
          panic |-> FALSE]

\* TaskProgress_track with assert! in place of debug_assert!
TaskProgress_track_assert_always(self, tasks, done) ==
    LET added == AddCounts(self, tasks, done)
    IN  IF added.panic THEN added
        ELSE [self |-> added.self, panic |-> ~(added.self.tasks >= added.self.done)]

TaskProgress_track(self, tasks, done) ==
    LET added == AddCounts(self, tasks, done)
    IN  IF added.panic THEN added
        ELSE [self |-> added.self,
              panic |-> debug_assertions /\ ~(added.self.tasks >= added.self.done)]

\* TaskProgress_task counting a done task as done only: track(0, 1)
TaskProgress_task_done_only(self, task) ==
    IF task = "Done" THEN TaskProgress_track(self, 0, 1)
    ELSE TaskProgress_track(self, 1, 0)

TaskProgress_task(self, task) ==
    IF task = "Done" THEN TaskProgress_track(self, 1, 1)
    ELSE TaskProgress_track(self, 1, 0)

TaskProgress_clear(self) == Zero

---------------------------------------------------------------------------
(* Progress<T>: [current, previous, persisted].                            *)

Ledger == [current : TaskProgress, previous : TaskProgress, persisted : TaskProgress]

\* Progress::default()
Default == [current |-> Zero, previous |-> Zero, persisted |-> Zero]

Progress_track(self, tasks, done) ==
    LET added == AddCounts(self.current, tasks, done)
    IN  [self |-> [self EXCEPT !.current = added.self], panic |-> added.panic]

\* Progress_finish_frame taking the snapshot before the baseline is re-applied
Progress_finish_frame_snapshot_first(self) ==
    LET tracked == Progress_track(self, self.persisted.tasks, self.persisted.done)
    IN  IF tracked.panic THEN tracked
        ELSE [self |-> [tracked.self EXCEPT !.previous = self.current,
                                            !.current = TaskProgress_clear(tracked.self.current)],
              panic |-> FALSE]

\* Progress_finish_frame without self.current.clear()
Progress_finish_frame_keeps_current(self) ==
    LET tracked == Progress_track(self, self.persisted.tasks, self.persisted.done)
    IN  IF tracked.panic THEN tracked
        ELSE [self |-> [tracked.self EXCEPT !.previous = tracked.self.current],
              panic |-> FALSE]

Progress_finish_frame(self) ==
    LET tracked == Progress_track(self, self.persisted.tasks, self.persisted.done)
    IN  IF tracked.panic THEN tracked
        ELSE [self |-> [tracked.self EXCEPT !.previous = tracked.self.current,
                                            !.current = TaskProgress_clear(tracked.self.current)],
              panic |-> FALSE]

\* Progress_task counting the task in previous instead of current
Progress_task_into_previous(self, task) ==
    LET r == TaskProgress_task(self.previous, task)
    IN  [self |-> [self EXCEPT !.previous = r.self], panic |-> r.panic]

Progress_task(self, task) ==
    LET r == TaskProgress_task(self.current, task)
    IN  [self |-> [self EXCEPT !.current = r.self], panic |-> r.panic]

\* F32Div over the counter values, tabulated
Quotient == [n \in Usize, d \in Usize |-> F32Div(UsizeAsF32(n), UsizeAsF32(d))]

\* Progress_progress without .min(1.0)
Progress_progress_unclamped(self) ==
    Quotient[self.previous.done, self.previous.tasks]

\* Progress_progress reporting 0.0 when no task is registered
Progress_progress_zero_guard(self) ==
    IF self.previous.tasks = 0 THEN F32Zero
    ELSE F32Min(Quotient[self.previous.done, self.previous.tasks], F32One)

\* Progress_progress reading the running counts instead of the snapshot
Progress_progress_reads_current(self) ==
    F32Min(Quotient[self.current.done, self.current.tasks], F32One)

Progress_progress(self) ==
    F32Min(Quotient[self.previous.done, self.previous.tasks], F32One)

\* Progress_persist_done_tasks persisting the tasks without marking them done
Progress_persist_done_tasks_not_done(self, done) ==
    LET r == TaskProgress_track(self.persisted, done, 0)
    IN  [self |-> [self EXCEPT !.persisted = r.self], panic |-> r.panic]

Progress_persist_done_tasks(self, done) ==
    LET r == TaskProgress_track(self.persisted, done, done)
    IN  [self |-> [self EXCEPT !.persisted = r.self], panic |-> r.panic]

\* Progress_persist_done counting in previous instead of persisted
Progress_persist_done_into_previous(self, done) ==
    LET r == TaskProgress_track(self.previous, 0, done)
    IN  [self |-> [self EXCEPT !.previous = r.self], panic |-> r.panic]

Progress_persist_done(self, done) ==
    LET r == TaskProgress_track(self.persisted, 0, done)
    IN  [self |-> [self EXCEPT !.persisted = r.self], panic |-> r.panic]

\* Progress_persist_tasks counting in current instead of persisted
Progress_persist_tasks_into_current(self, tasks) ==
    LET r == TaskProgress_track(self.current, tasks, 0)
    IN  [self |-> [self EXCEPT !.current = r.self], panic |-> r.panic]

\* Progress_persist_tasks assigning persisted.tasks instead of adding to it
Progress_persist_tasks_overwrites(self, tasks) ==
    [self |-> [self EXCEPT !.persisted = Pair(tasks, self.persisted.done)],
     panic |-> debug_assertions /\ ~(tasks >= self.persisted.done)]

Progress_persist_tasks(self, tasks) ==
    LET r == TaskProgress_track(self.persisted, tasks, 0)
    IN  [self |-> [self EXCEPT !.persisted = r.self], panic |-> r.panic]

\* Progress_clear without self.persisted.clear()
Progress_clear_keeps_persisted(self) ==
    [self |-> [current |-> TaskProgress_clear(self.current),
               previous |-> TaskProgress_clear(self.previous),
               persisted |-> self.persisted],
     panic |-> FALSE]

Progress_clear(self) ==
    [self |-> [current |-> TaskProgress_clear(self.current),
               previous |-> TaskProgress_clear(self.previous),
               persisted |-> TaskProgress_clear(self.persisted)],
     panic |-> FALSE]

---------------------------------------------------------------------------
(* The ledger of the application and the calls made on it. *)

Self == [current |-> current, previous |-> previous, persisted |-> persisted]

NoValue == [cls |-> "none", mant |-> 0, exp |-> 0]

\* a call of the &mut self method `name` with outcome r
Call(name, r) ==
    /\ ~panicked
    /\ current' = r.self.current
    /\ previous' = r.self.previous
    /\ persisted' = r.self.persisted
    /\ panicked' = r.panic
    /\ op' = name
    /\ ret' = NoValue
    /\ UNCHANGED debug_assertions

Init ==
    /\ debug_assertions \in BOOLEAN
    /\ current = Default.current
    /\ previous = Default.previous
    /\ persisted = Default.persisted
    /\ panicked = FALSE
    /\ op = "new"
    /\ ret = NoValue
    /\ twin = [self |-> Default, panic |-> FALSE]
    /\ standing = <<>>

Track(tasks, done) ==
    Call("track", Progress_track(Self, tasks, done)) /\ UNCHANGED <<twin, standing>>

FinishFrame ==
    Call("finish_frame", Progress_finish_frame(Self)) /\ UNCHANGED <<twin, standing>>

MarkTask(task) ==
    Call("task", Progress_task(Self, task)) /\ UNCHANGED <<twin, standing>>

ReadProgress ==
    /\ ~panicked
    /\ op' = "progress"
    /\ ret' = Progress_progress(Self)
    /\ UNCHANGED <<debug_assertions, current, previous, persisted, panicked, twin, standing>>

PersistDoneTasks(done) ==
    Call("persist_done_tasks", Progress_persist_done_tasks(Self, done))
        /\ UNCHANGED <<twin, standing>>

PersistDone(done) ==
    Call("persist_done", Progress_persist_done(Self, done)) /\ UNCHANGED <<twin, standing>>

PersistTasks(tasks) ==
    Call("persist_tasks", Progress_persist_tasks(Self, tasks)) /\ UNCHANGED <<twin, standing>>

Clear == Call("clear", Progress_clear(Self)) /\ UNCHANGED <<twin, standing>>

Next ==
    \/ \E tasks \in Usize, done \in Usize : Track(tasks, done)
    \/ FinishFrame
    \/ \E task \in Task : MarkTask(task)
    \/ ReadProgress
    \/ \E done \in Usize : PersistDoneTasks(done)
    \/ \E done \in Usize : PersistDone(done)
    \/ \E tasks \in Usize : PersistTasks(tasks)
    \/ Clear

Spec == Init /\ [][Next]_vars

TypeOK ==
    /\ debug_assertions \in BOOLEAN
    /\ Self \in Ledger
    /\ panicked \in BOOLEAN
    /\ op \in {"new", "track", "finish_frame", "task", "persist_done_tasks",
               "persist_done", "persist_tasks", "clear", "progress"}
    /\ ret = IF op = "progress" THEN Progress_progress(Self) ELSE NoValue

---------------------------------------------------------------------------
(* Persisting once against tracking in every frame (the doc comments of    *)
(* persist_done_tasks, persist_done and persist_tasks): the ledger         *)
(* persists, its twin is given the matching track call in that frame and   *)
(* in every later one, just before finish_frame; every other registration  *)
(* is made on both.                                                        *)

\* how many persist calls a run makes
MaxPersists == 1

\* the track calls `calls` made one after the other, starting from outcome r
RECURSIVE TrackEach(_, _)
TrackEach(r, calls) ==
    IF calls = <<>> \/ r.panic THEN r
    ELSE TrackEach(Progress_track(r.self, Head(calls).tasks, Head(calls).done), Tail(calls))

\* a frame's end on the twin: its standing track calls, then finish_frame
TwinFinishFrame ==
    LET tracked == TrackEach(twin, standing)
    IN  IF tracked.panic THEN tracked ELSE Progress_finish_frame(tracked.self)

BothTrack(tasks, done) ==
    /\ ~twin.panic
    /\ Call("track", Progress_track(Self, tasks, done))
    /\ twin' = Progress_track(twin.self, tasks, done)
    /\ UNCHANGED standing

BothMarkTask(task) ==
    /\ ~twin.panic
    /\ Call("task", Progress_task(Self, task))
    /\ twin' = Progress_task(twin.self, task)
    /\ UNCHANGED standing

BothFinishFrame ==
    /\ ~twin.panic
    /\ Call("finish_frame", Progress_finish_frame(Self))
    /\ twin' = TwinFinishFrame
    /\ UNCHANGED standing

\* persist_done_tasks(done) once, track(done, done) in every frame
PersistDoneTasksOnce(done) ==
    /\ ~twin.panic /\ Len(standing) < MaxPersists
    /\ Call("persist_done_tasks", Progress_persist_done_tasks(Self, done))
    /\ standing' = Append(standing, Pair(done, done))
    /\ UNCHANGED twin

\* persist_done(done) once, track(0, done) in every frame
PersistDoneOnce(done) ==
    /\ ~twin.panic /\ Len(standing) < MaxPersists
    /\ Call("persist_done", Progress_persist_done(Self, done))
    /\ standing' = Append(standing, Pair(0, done))
    /\ UNCHANGED twin

\* persist_tasks(tasks) once, track(tasks, 0) in every frame
PersistTasksOnce(tasks) ==
    /\ ~twin.panic /\ Len(standing) < MaxPersists
    /\ Call("persist_tasks", Progress_persist_tasks(Self, tasks))
    /\ standing' = Append(standing, Pair(tasks, 0))
    /\ UNCHANGED twin

NextPersist ==
    \/ \E tasks \in Usize, done \in Usize : BothTrack(tasks, done)
    \/ \E task \in Task : BothMarkTask(task)
    \/ BothFinishFrame
    \/ \E done \in Usize : PersistDoneTasksOnce(done)
    \/ \E done \in Usize : PersistDoneOnce(done)
    \/ \E tasks \in Usize : PersistTasksOnce(tasks)

SpecPersist == Init /\ [][NextPersist]_vars

---------------------------------------------------------------------------
(* Callers that keep done <= tasks: every track(tasks, done) call has      *)
(* done <= tasks, and every persist call leaves persisted.done <=          *)
(* persisted.tasks.                                                        *)

TrackWithin(tasks, done) ==
    /\ done <= tasks
    /\ Track(tasks, done)

\* the persist call with outcome r leaves persisted.done <= persisted.tasks
LeavesWithin(r) == r.self.persisted.done <= r.self.persisted.tasks

PersistDoneTasksWithin(done) ==
    /\ LeavesWithin(Progress_persist_done_tasks(Self, done))
    /\ PersistDoneTasks(done)

PersistDoneWithin(done) ==
    /\ LeavesWithin(Progress_persist_done(Self, done))
    /\ PersistDone(done)

PersistTasksWithin(tasks) ==
    /\ LeavesWithin(Progress_persist_tasks(Self, tasks))
    /\ PersistTasks(tasks)

NextWithin ==
    \/ \E tasks \in Usize, done \in Usize : TrackWithin(tasks, done)
    \/ FinishFrame
    \/ \E task \in Task : MarkTask(task)
    \/ ReadProgress
    \/ \E done \in Usize : PersistDoneTasksWithin(done)
    \/ \E done \in Usize : PersistDoneWithin(done)
    \/ \E tasks \in Usize : PersistTasksWithin(tasks)
    \/ Clear

SpecWithin == Init /\ [][NextWithin]_vars

---------------------------------------------------------------------------
(* One frame of a new ledger, its calls made in the order issued on the    *)
(* ledger and in the opposite order on the twin.                           *)

\* how many calls are made in the frame
MaxCalls == 2

\* the registering calls: track(tasks, done); task(Done) and task(InProgress),
\* written with the counts TaskProgress::task passes on, (1, 1) and (1, 0);
\* persist_tasks(n), persist_done(n), persist_done_tasks(n), written with the
\* counts they pass on, (n, 0), (0, n) and (n, n)
RegisteringCalls ==
    [name : {"track"}, tasks : Usize, done : Usize]
        \cup [name : {"task"}, tasks : {1}, done : {0, 1}]
        \cup [name : {"persist_tasks"}, tasks : Usize, done : {0}]
        \cup [name : {"persist_done"}, tasks : {0}, done : Usize]
        \cup {[name |-> "persist_done_tasks", tasks |-> n, done |-> n] : n \in Usize}

\* the call c made on the ledger self
Dispatch(self, c) ==
    CASE c.name = "track" -> Progress_track(self, c.tasks, c.done)
      [] c.name = "task" ->
            Progress_task(self, IF c.done = 1 THEN "Done" ELSE "InProgress")
      [] c.name = "persist_tasks" -> Progress_persist_tasks(self, c.tasks)
      [] c.name = "persist_done" -> Progress_persist_done(self, c.done)
      [] c.name = "persist_done_tasks" -> Progress_persist_done_tasks(self, c.done)

\* the calls made one after the other, starting from outcome r, up to a panic
RECURSIVE DispatchEach(_, _)
DispatchEach(r, calls) ==
    IF calls = <<>> \/ r.panic THEN r
    ELSE DispatchEach(Dispatch(r.self, Head(calls)), Tail(calls))

Reversed(calls) == [i \in 1 .. Len(calls) |-> calls[Len(calls) + 1 - i]]

\* the call c on the ledger; the twin is a new ledger given the calls made so
\* far, c included, last first
Issue(c) ==
    /\ op # "finish_frame" /\ Len(standing) < MaxCalls
    /\ Call(c.name, Dispatch(Self, c))
    /\ standing' = Append(standing, c)
    /\ twin' = DispatchEach([self |-> Default, panic |-> FALSE], Reversed(standing'))

\* the end of the frame on both
FinishOrder ==
    /\ op # "finish_frame"
    /\ Call("finish_frame", Progress_finish_frame(Self))
    /\ twin' = (IF twin.panic THEN twin ELSE Progress_finish_frame(twin.self))
    /\ UNCHANGED standing

NextOrder ==
    \/ \E c \in RegisteringCalls : Issue(c)
    \/ FinishOrder

SpecOrder == Init /\ [][NextOrder]_vars

---------------------------------------------------------------------------
(* Properties.  Every call sets op, so a step with op' = name is a call of  *)
(* the method `name`.                                                       *)

\* the float a progress() call returns in this state
Reported == Progress_progress(Self)

RegisteringMethods ==
    {"track", "task", "persist_tasks", "persist_done", "persist_done_tasks"}

\* the counter type's sum of two count pairs
UsizeSum(a, b) == Pair(WrappingAdd(a.tasks, b.tasks), WrappingAdd(a.done, b.done))

\* both sums fit the counter type
Fits(a, b) == a.tasks + b.tasks <= UsizeMax /\ a.done + b.done <= UsizeMax

\* the float f is the quotient d / t rounded to a nearest float: it lies
\* within half a unit in the last place of d / t; no float is a quotient by 0
IsQuotient(f, d, t) ==
    /\ t > 0
    /\ f.cls = "fin"
    /\ LET err == f.mant * t - d * 2 ^ f.exp
       IN  2 * err <= t /\ -2 * err <= t

\* 0 <= f <= 1
InUnitInterval(f) == f.cls = "fin" /\ 0 <= f.mant /\ f.mant <= 2 ^ f.exp

FreshTracked ==
    /\ op = "track" /\ ~panicked
    /\ previous = Zero /\ persisted = Zero
    /\ current.done <= current.tasks

C3_BaselineAppliedOncePerFrame ==
    [][(op' = "finish_frame" /\ (current = Zero \/ op = "finish_frame")) =>
         /\ ~panicked'
         /\ previous' = persisted
         /\ persisted' = persisted
         /\ current' = Zero
         /\ (previous = persisted => previous' = previous /\ Reported' = Reported)]_vars

C3_Witness ==
    /\ op = "finish_frame" /\ ~panicked
    /\ persisted = Pair(3, 2) /\ previous = persisted /\ current = Zero

\* C4: track, task and the three persist calls leave previous, and with it
\* the value of progress(), unchanged.
C4_CycleIsolation ==
    [][op' \in RegisteringMethods => previous' = previous /\ Reported' = Reported]_vars

C4_Witness ==
    /\ op = "track" /\ ~panicked
    /\ previous = Pair(2, 1) /\ current = Pair(3, 3)

\* C5 as stated: every call but finish_frame, clear included, leaves previous
\* unchanged.
C5_Original ==
    [][op' # "finish_frame" => previous' = previous]_vars

\* C5 amended: previous changes only in finish_frame, which overwrites it with
\* the snapshot, and in clear, which zeroes it; track, task, the persist calls
\* and progress leave it unchanged.
C5_Amended ==
    [][\/ previous' = previous
       \/ op' = "finish_frame" /\ ~panicked' /\ previous' = UsizeSum(current, persisted)
       \/ op' = "clear" /\ previous' = Zero]_vars

C5_Witness ==
    /\ op = "persist_done" /\ ~panicked
    /\ previous = Pair(3, 1) /\ persisted = Pair(2, 2)

\* C6: from every state, task(Done) has the outcome of track(1, 1) and
\* task(InProgress) the outcome of track(1, 0).
C6_TaskIsTrack ==
    ~panicked =>
        /\ Progress_task(Self, "Done") = Progress_track(Self, 1, 1)
        /\ Progress_task(Self, "InProgress") = Progress_track(Self, 1, 0)

C8_Original == ~panicked

\* the outcome of a call on the pair `pair` that adds (tasks, done) to it and
\* asserts tasks >= done afterwards: it panics exactly in a dev build when a
\* sum overflows or done exceeds tasks afterwards
AssertingOutcome(r, pair, tasks, done) ==
    r.panic <=> /\ debug_assertions
                /\ \/ ~Fits(pair, Pair(tasks, done))
                   \/ pair.done + done > pair.tasks + tasks

\* C8 amended: no method returns an error, and in a release build every call
\* completes; in a dev build a call panics exactly when one of its additions
\* overflows or when task or a persist call leaves done > tasks, and clear and
\* progress never panic.
C8_Amended ==
    /\ panicked => debug_assertions /\ op \notin {"new", "clear", "progress"}
    /\ ~panicked =>
        /\ ~Progress_clear(Self).panic
        /\ Progress_progress(Self).cls # "none"
        /\ Progress_finish_frame(Self).panic
              <=> (debug_assertions /\ ~Fits(current, persisted))
        /\ \A tasks \in Usize, done \in Usize :
              Progress_track(Self, tasks, done).panic
                 <=> (debug_assertions /\ ~Fits(current, Pair(tasks, done)))
        /\ AssertingOutcome(Progress_task(Self, "Done"), current, 1, 1)
        /\ AssertingOutcome(Progress_task(Self, "InProgress"), current, 1, 0)
        /\ \A n \in Usize :
              /\ AssertingOutcome(Progress_persist_tasks(Self, n), persisted, n, 0)
              /\ AssertingOutcome(Progress_persist_done(Self, n), persisted, 0, n)
              /\ AssertingOutcome(Progress_persist_done_tasks(Self, n), persisted, n, n)

C8_Witness ==
    /\ ~debug_assertions /\ ~panicked
    /\ op = "persist_done" /\ persisted = Pair(0, 1)

\* C9: clear zeroes current, previous and persisted, and a finish_frame right
\* after it leaves previous = (0, 0).
C9_ClearResets ==
    [][/\ op' = "clear" =>
            (~panicked' /\ current' = Zero /\ previous' = Zero /\ persisted' = Zero)
       /\ (op = "clear" /\ op' = "finish_frame") =>
            (~panicked' /\ previous' = Zero /\ current' = Zero /\ persisted' = Zero)]_vars

C9_Witness == op = "clear" /\ ~panicked /\ Self = Default

\* C10: in every state progress() returns a number between 0 and 1, also when
\* previous.tasks is 0.
C10_ProgressInUnitInterval ==
    /\ InUnitInterval(Reported)
    /\ op = "progress" => ret = Reported

C10_Witness ==
    /\ op = "progress" /\ previous.tasks = 0 /\ previous.done > 0 /\ ret = F32One

\* C11: whenever previous.done > previous.tasks with previous.tasks > 0,
\* progress() returns exactly 1.0 although the quotient is greater, and in no
\* state is the value of progress() greater than 1.0.
C11_Clamping ==
    /\ (previous.done > previous.tasks /\ previous.tasks > 0) =>
          /\ Reported = F32One
          /\ F32Less(F32One, Quotient[previous.done, previous.tasks])
    /\ Reported.cls \in {"fin", "inf"} => ~F32Less(F32One, Reported)
    /\ op = "progress" => ret.cls \in {"fin", "inf"} /\ ~F32Less(F32One, ret)

C11_Witness ==
    /\ op = "progress" /\ ~panicked
    /\ previous = Pair(1, 3) /\ ret = F32One

\* C12 as stated: when previous.tasks is 0, progress() yields a NaN or an
\* infinity, not a number in [0, 1].
C12_Original ==
    previous.tasks = 0 => Reported.cls \in {"nan", "inf"}

\* C12 amended: when previous.tasks is 0 the quotient is NaN (previous.done =
\* 0) or infinite (previous.done > 0), progress() does not special-case it,
\* and .min(1.0) makes the value returned 1.0 in both cases.
C12_Amended ==
    previous.tasks = 0 =>
        /\ Quotient[previous.done, previous.tasks].cls
              = (IF previous.done = 0 THEN "nan" ELSE "inf")
        /\ Reported = F32One
        /\ op = "progress" => ret = F32One

C12_Witness ==
    /\ op = "progress" /\ ~panicked
    /\ previous = Zero /\ persisted = Zero /\ ret = F32One

\* C14: progress() changes nothing of the ledger and returns the value fixed
\* by previous; no call but finish_frame and clear changes that value, so
\* all progress() calls between two of those return the same float.
C14_ReportingIdempotent ==
    [][/\ op' = "progress" =>
            /\ ret' = Reported
            /\ Self' = Self /\ ~panicked'
       /\ op' \notin {"finish_frame", "clear"} => Reported' = Reported
       /\ (op = "progress" /\ op' = "progress") => ret' = ret]_vars

C14_Witness ==
    /\ op = "progress" /\ ~panicked
    /\ previous = Pair(2, 1) /\ current = Pair(1, 1) /\ persisted = Pair(3, 0)
    /\ ret = Finite(2 ^ (F32Bits - 1), F32Bits)

\* the value a w-bit counter holds for the sum x of two of its values
Stored(x) == IF x > UsizeMax THEN x - Modulus ELSE x

\* the outcome r of a persist call adds tasks and done to the persisted pair of
\* the ledger and to nothing else: exactly where the sums fit; where one does
\* not, modulo 2^w in a release build, and by a panic that decreases no count
\* in a dev build
PersistAdds(r, tasks, done) ==
    /\ r.self.current = current /\ r.self.previous = previous
    /\ IF persisted.tasks + tasks <= UsizeMax /\ persisted.done + done <= UsizeMax
       THEN r.self.persisted = Pair(persisted.tasks + tasks, persisted.done + done)
       ELSE IF debug_assertions
       THEN /\ r.panic
            /\ r.self.persisted.tasks \in {persisted.tasks, persisted.tasks + tasks}
            /\ r.self.persisted.done \in {persisted.done, persisted.done + done}
       ELSE /\ ~r.panic
            /\ r.self.persisted = Pair(Stored(persisted.tasks + tasks),
                                       Stored(persisted.done + done))

\* the calls that leave persisted alone, and the persist calls, which leave
\* current and previous alone and each write their own counts of persisted
PersistedFrame ==
    /\ op' \in {"track", "task", "finish_frame", "progress"} => persisted' = persisted
    /\ op' \in {"persist_tasks", "persist_done", "persist_done_tasks"} =>
          current' = current /\ previous' = previous
    /\ op' = "persist_tasks" => persisted'.done = persisted.done
    /\ op' = "persist_done" => persisted'.tasks = persisted.tasks

\* C13 as stated: persisted changes only through the persist calls and clear,
\* each persist call leaving current and previous alone, and no call but clear
\* ever decreases persisted.tasks or persisted.done.
C13_Original ==
    [][/\ PersistedFrame
       /\ op' # "clear" => /\ persisted'.tasks >= persisted.tasks
                           /\ persisted'.done >= persisted.done]_vars

\* C13 amended: persisted changes only through the persist calls and clear;
\* persist_tasks(n) adds n to persisted.tasks only, persist_done(n) to
\* persisted.done only, persist_done_tasks(n) to both, each leaving current
\* and previous alone. The sums are the counter type's: a count of persisted
\* decreases only in a release build, on a persist call whose sum exceeds the
\* greatest counter value and is stored modulo 2^w.
C13_Amended ==
    /\ [](\A n \in Usize :
            /\ PersistAdds(Progress_persist_tasks(Self, n), n, 0)
            /\ PersistAdds(Progress_persist_done(Self, n), 0, n)
            /\ PersistAdds(Progress_persist_done_tasks(Self, n), n, n))
    /\ [][/\ PersistedFrame
           /\ (op' # "clear" /\ (\/ persisted'.tasks < persisted.tasks
                                  \/ persisted'.done < persisted.done)) =>
                 /\ ~debug_assertions
                 /\ op' \in {"persist_tasks", "persist_done", "persist_done_tasks"}
                 /\ \E n \in Usize :
                       \/ /\ persisted.tasks + n > UsizeMax
                          /\ persisted'.tasks = persisted.tasks + n - Modulus
                       \/ /\ persisted.done + n > UsizeMax
                          /\ persisted'.done = persisted.done + n - Modulus]_vars

C13_Witness ==
    /\ op = "persist_done_tasks" /\ ~panicked
    /\ persisted = Pair(3, 2) /\ current = Pair(1, 0) /\ previous = Pair(2, 1)

\* done <= tasks in each of the three pairs
DoneWithinTasks ==
    /\ current.done <= current.tasks
    /\ previous.done <= previous.tasks
    /\ persisted.done <= persisted.tasks

\* C15: in a dev build no call returns leaving done > tasks in current or in
\* persisted: whichever call would, track and finish_frame included, panics
\* on the debug assertion.
C15_NoSilentExcess ==
    (debug_assertions /\ ~panicked) =>
        /\ current.done <= current.tasks
        /\ persisted.done <= persisted.tasks

\* C16 as stated: when every track call has done <= tasks and every persist
\* call leaves persisted.done <= persisted.tasks, done <= tasks holds for
\* current, previous and persisted in every state.
C16_Original == DoneWithinTasks

\* the step stores no sum modulo 2^w in current or previous: a count of
\* current that track or task added to has not decreased, and the sums of
\* finish_frame fit
NoWrap ==
    /\ op' \in {"track", "task"} =>
          current'.tasks >= current.tasks /\ current'.done >= current.done
    /\ op' = "finish_frame" => Fits(current, persisted)

\* C16 amended: with such callers done <= tasks holds for the three pairs in
\* every state of a dev build, and in a release build it is kept by every
\* step that stores no sum modulo 2^w.
C16_Amended ==
    /\ [](debug_assertions => DoneWithinTasks)
    /\ [][(DoneWithinTasks /\ NoWrap) => DoneWithinTasks']_vars

C16_Witness ==
    /\ debug_assertions /\ panicked /\ op = "finish_frame"
    /\ current = Pair(2, 2) /\ persisted = Pair(2, 1) /\ previous = Pair(3, 1)

\* C17 as stated: the calls of a frame made in another order have the same
\* outcome (both orders panic or neither does) and finish_frame then leaves
\* the same previous.
C17_Original ==
    /\ panicked = twin.panic
    /\ (op = "finish_frame" /\ ~panicked) => previous = twin.self.previous

\* C17 amended: in a release build no order panics; in either build two
\* orders that both complete leave the same ledger, hence the same previous
\* after finish_frame. (In a dev build one order can panic where another
\* completes.)
C17_Amended ==
    /\ ~debug_assertions => ~panicked /\ ~twin.panic
    /\ (~panicked /\ ~twin.panic) => twin.self = Self

C17_Witness ==
    /\ op = "finish_frame" /\ ~panicked /\ ~twin.panic
    /\ Len(standing) = 2
    /\ standing[1].name = "persist_done" /\ standing[2].name = "track"
    /\ previous = Pair(3, 2) /\ twin.self.previous = Pair(3, 2)

\* C18 as stated: track(tasks, done) and the re-application of persisted in
\* finish_frame return with the exact sums, whatever the state and arguments.
C18_Original ==
    /\ \A tasks \in Usize, done \in Usize :
          LET r == Progress_track(Self, tasks, done)
          IN  /\ ~r.panic
              /\ r.self.current = Pair(current.tasks + tasks, current.done + done)
    /\ LET f == Progress_finish_frame(Self)
       IN  /\ ~f.panic
           /\ f.self.previous = Pair(current.tasks + persisted.tasks,
                                     current.done + persisted.done)

\* r is the outcome of adding (tasks, done) to the pair `pair`, read in r as
\* `sum`: the exact sums where both fit; where one does not, a release build
\* stores the sums modulo 2^w and a dev build panics at the first sum that
\* does not fit, the tasks added if theirs fits
AddsWithinWidth(r, sum, pair, tasks, done) ==
    IF pair.tasks + tasks <= UsizeMax /\ pair.done + done <= UsizeMax
    THEN ~r.panic /\ sum = Pair(pair.tasks + tasks, pair.done + done)
    ELSE IF debug_assertions
    THEN /\ r.panic
         /\ sum = (IF pair.tasks + tasks > UsizeMax THEN pair
                   ELSE Pair(pair.tasks + tasks, pair.done))
    ELSE /\ ~r.panic
         /\ sum = Pair(Stored(pair.tasks + tasks), Stored(pair.done + done))

\* C18 amended: track and the re-application of persisted in finish_frame
\* yield the exact sums when these fit the w-bit counter; when one does not,
\* a release build stores the sums modulo 2^w and a dev build panics.
C18_Amended ==
    /\ \A tasks \in Usize, done \in Usize :
          LET r == Progress_track(Self, tasks, done)
          IN  AddsWithinWidth(r, r.self.current, current, tasks, done)
    /\ LET f == Progress_finish_frame(Self)
       IN  AddsWithinWidth(f, IF f.panic THEN f.self.current ELSE f.self.previous,
                           current, persisted.tasks, persisted.done)

C18_Witness ==
    /\ ~debug_assertions /\ ~panicked /\ op = "finish_frame"
    /\ persisted = Pair(3, 3) /\ previous = Pair(0, 1) /\ current = Zero

=============================================================================
